---- MODULE Spec2Model ----
(***************************************************************************)
(* Model of src/main.py: the Instagram scraper service.                    *)
(*                                                                         *)
(* Text is a sequence of one-character strings, so that strip, lower,      *)
(* replace, slicing, the hashtag regular expression and join are computed  *)
(* as Python computes them.  The browser (selenium) is the environment:    *)
(* what a page holds and whether a call raises is a nondeterministic       *)
(* input of the step that makes the call.                                  *)
(***************************************************************************)
EXTENDS Integers, Sequences, FiniteSets, TLC

(***************************************************************************)
(* Text helpers (Python str methods)                                       *)
(***************************************************************************)

\* the empty str ""
Empty == <<>>

\* Python None, where a str is expected (get_attribute of an absent attribute)
None == <<"None">>

Whitespace == {" "}

Digits == {"0", "1", "2", "3", "4", "5", "6", "7", "8", "9"}

UpperCase == {"A", "H"}

LowerCase == {"a", "b", "c", "e", "h", "l", "n", "o", "s", "u", "x"}

\* \w of the re module: letters, digits and the underscore
WordChars == UpperCase \cup LowerCase \cup Digits \cup {"_"}

\* n copies of the character c
Rep(c, n) == [i \in 1..n |-> c]

\* str.lower(), character by character
LowerChar(c) == CASE c = "A" -> "a" [] c = "H" -> "h" [] OTHER -> c

Lower(s) == [i \in 1..Len(s) |-> LowerChar(s[i])]

\* str.strip(): leading and trailing whitespace removed
RECURSIVE LStrip(_)
LStrip(s) == IF s # <<>> /\ Head(s) \in Whitespace THEN LStrip(Tail(s)) ELSE s

RECURSIVE RStrip(_)
RStrip(s) ==
    IF s # <<>> /\ s[Len(s)] \in Whitespace THEN RStrip(SubSeq(s, 1, Len(s) - 1)) ELSE s

Strip(s) == RStrip(LStrip(s))

\* str.replace(c, ""): every occurrence of the character c removed
RECURSIVE Remove(_, _)
Remove(s, c) ==
    IF s = <<>> THEN <<>>
    ELSE IF Head(s) = c THEN Remove(Tail(s), c)
    ELSE <<Head(s)>> \o Remove(Tail(s), c)

\* str.isdigit(): non-empty and digits only
IsDigit(s) == s # <<>> /\ \A i \in 1..Len(s) : s[i] \in Digits

\* sep.join(list)
RECURSIVE Join(_, _)
Join(sep, list) ==
    IF list = <<>> THEN <<>>
    ELSE IF Len(list) = 1 THEN list[1]
    ELSE list[1] \o sep \o Join(sep, Tail(list))

\* s[:n]
Prefix(s, n) == SubSeq(s, 1, IF Len(s) < n THEN Len(s) ELSE n)

\* str(n) for the small counts the program formats
Str(n) == <<CASE n = 0 -> "0" [] n = 1 -> "1" [] n = 2 -> "2" [] n = 3 -> "3"
              [] n = 4 -> "4" [] OTHER -> "5">>

\* last index of the run of \w characters that starts at i (s[i] is a word character)
RECURSIVE WordRunEnd(_, _)
WordRunEnd(s, i) ==
    IF i < Len(s) /\ s[i + 1] \in WordChars THEN WordRunEnd(s, i + 1) ELSE i

\* re.findall(r'#\w+', s) from position i on: non-overlapping, leftmost, greedy;
\* each match is the whole token, '#' included
RECURSIVE FindAllFrom(_, _)
FindAllFrom(s, i) ==
    IF i > Len(s) THEN <<>>
    ELSE IF s[i] = "#" /\ i < Len(s) /\ s[i + 1] \in WordChars
         THEN LET e == WordRunEnd(s, i + 1)
              IN  <<SubSeq(s, i, e)>> \o FindAllFrom(s, e + 1)
         ELSE FindAllFrom(s, i + 1)

\* a scan with the pattern '#(\w+)': findall then gives the group, without the '#'
FindAllHashtagsGroup(s) == [k \in 1..Len(FindAllFrom(s, 1)) |-> Tail(FindAllFrom(s, 1)[k])]

FindAllHashtags(s) == FindAllFrom(s, 1)

(***************************************************************************)
(* InstagramScraper.scrape_single_post                                     *)
(*                                                                         *)
(* A link is [kind, code]: the href https://www.instagram.com/<kind>/<code>/*)
(* with kind "p" or "reel", or some other href (kind "other").             *)
(* What the browser shows for a post is a record:                          *)
(*   load      driver.get(post_url) returns (FALSE: it raises)             *)
(*   now       datetime.utcnow().isoformat()                               *)
(*   caption   per caption selector: is an element found, and its .text    *)
(*   likes     per likes selector: does find_elements return, the .text's  *)
(*   time_dt   //time[@datetime]: found, and its datetime attribute        *)
(*   time_any  //time: found, and its title attribute (None when absent)   *)
(*   video     per indicator: "found", "empty" or "raise"                  *)
(*   comments  does find_elements return, and the elements' .text          *)
(***************************************************************************)

CaptionMinLen == 10

TitleLen == 50

MaxComments == 5

CommentMinLen == 5

Ellipsis == <<".", ".", ".">>

TrueStr == <<"T", "r", "u", "e">>

FalseStr == <<"F", "a", "l", "s", "e">>

Zero == <<"0">>

PostKinds == {"p", "reel"}

\* post_url.split("/p/")[1].strip("/") or post_url.split("/reel/")[1].strip("/")
Shortcode(url) == url.code

\* the dict literal with a key the CSV's fieldnames do not have
DefaultPostDataExtraKey(url, now) ==
    [post_url |-> url, shortcode |-> Shortcode(url), scraped_at |-> now,
     title |-> Empty, caption |-> Empty, hashtags |-> Empty, likes |-> Zero,
     comments_count |-> Zero, comments |-> Empty, timestamp |-> Empty,
     is_video |-> FalseStr, media_type |-> Empty]

\* the dict literal post_data = {...}
DefaultPostData(url, now) ==
    [post_url |-> url, shortcode |-> Shortcode(url), scraped_at |-> now,
     title |-> Empty, caption |-> Empty, hashtags |-> Empty, likes |-> Zero,
     comments_count |-> Zero, comments |-> Empty, timestamp |-> Empty,
     is_video |-> FalseStr]

\* the test with >= in place of >
CaptionAcceptedFromTen(text) == text # Empty /\ Len(text) >= CaptionMinLen

\* the caption loop's test: caption_text and len(caption_text) > 10
CaptionAccepted(text) == text # Empty /\ Len(text) > CaptionMinLen

\* the caption loop: the first selector whose element exists and whose stripped text
\* is accepted; [hit, text]
FirstCaption(cands) ==
    LET hits == {i \in 1..Len(cands) :
                    cands[i].found /\ CaptionAccepted(Strip(cands[i].text))}
    IN  IF hits = {} THEN [hit |-> FALSE, text |-> Empty]
        ELSE LET k == CHOOSE i \in hits : \A j \in hits : i <= j
             IN  [hit |-> TRUE, text |-> Strip(cands[k].text)]

\* ', '.join(re.findall(r'#\w+', caption_text))
HashtagsOf(caption_text) == Join(<<",", " ">>, FindAllHashtags(caption_text))

\* the title with >= in place of >: a caption of 50 characters gets the ellipsis
TitleOfFromFifty(caption_text) ==
    IF Len(caption_text) >= TitleLen THEN Prefix(caption_text, TitleLen) \o Ellipsis
    ELSE caption_text

\* caption_text[:50] + "..." if len(caption_text) > 50 else caption_text
TitleOf(caption_text) ==
    IF Len(caption_text) > TitleLen THEN Prefix(caption_text, TitleLen) \o Ellipsis
    ELSE caption_text

\* element.text.strip().replace(',', '').replace('.', '')
CleanLikes(text) == Remove(Remove(Strip(text), ","), ".")

\* the likes loops from selector i on, likes being post_data['likes'] so far
RECURSIVE LikesFrom(_, _, _)
LikesFrom(sels, i, likes) ==
    IF i > Len(sels) THEN likes
    ELSE IF ~sels[i].ok THEN LikesFrom(sels, i + 1, likes)
    ELSE LET texts == sels[i].texts
             digs  == {k \in 1..Len(texts) : IsDigit(CleanLikes(texts[k]))}
             new   == IF digs = {} THEN likes
                      ELSE CleanLikes(texts[CHOOSE k \in digs : \A j \in digs : k <= j])
         IN  IF new # Zero THEN new ELSE LikesFrom(sels, i + 1, new)

\* the two nested try blocks of the timestamp
TimestampOf(page, default) ==
    IF page.time_dt.found THEN page.time_dt.value
    ELSE IF page.time_any.found THEN page.time_any.value
    ELSE default

\* the video indicators from index i on, inside one try: a raise ends the loop
RECURSIVE VideoFrom(_, _)
VideoFrom(inds, i) ==
    IF i > Len(inds) THEN FALSE
    ELSE IF inds[i] = "found" THEN TRUE
    ELSE IF inds[i] = "raise" THEN FALSE
    ELSE VideoFrom(inds, i + 1)

IsVideoOf(url, page) ==
    IF url.kind = "reel" THEN TrueStr
    ELSE IF VideoFrom(page.video, 1) THEN TrueStr ELSE FalseStr

\* comment_text and len(comment_text) > 5
CommentKept(text) == text # Empty /\ Len(text) > CommentMinLen

\* the comments kept: the first five elements' stripped texts that are long enough
CommentsOf(page) ==
    IF ~page.comments.ok THEN <<>>
    ELSE LET first == Prefix(page.comments.texts, MaxComments)
             texts == [i \in 1..Len(first) |-> Strip(first[i])]
         IN  SelectSeq(texts, CommentKept)

\* the record scrape_single_post fills in once the page is loaded: the dict literal,
\* then the caption, likes, timestamp, video and comments steps in turn
PostDataOf(url, page) ==
    LET d0  == DefaultPostData(url, page.now)
        cap == FirstCaption(page.caption)
        d1  == IF cap.hit
               THEN [d0 EXCEPT !.caption = cap.text,
                               !.hashtags = HashtagsOf(cap.text),
                               !.title = TitleOf(cap.text)]
               ELSE d0
        d2  == [d1 EXCEPT !.likes = LikesFrom(page.likes, 1, d1.likes)]
        d3  == [d2 EXCEPT !.timestamp = TimestampOf(page, d2.timestamp)]
        d4  == [d3 EXCEPT !.is_video = IsVideoOf(url, page)]
        cs  == CommentsOf(page)
    IN  IF cs # <<>>
        THEN [d4 EXCEPT !.comments = Join(<<" ", "|", " ">>, cs),
                        !.comments_count = Str(Len(cs))]
        ELSE d4

\* scrape_single_post raising as well when no caption is found
ScrapeSinglePostNeedsCaption(url, page) ==
    IF ~page.load \/ url.kind \notin PostKinds \/ ~FirstCaption(page.caption).hit
    THEN [raised |-> TRUE, data |-> <<>>]
    ELSE [raised |-> FALSE, data |-> PostDataOf(url, page)]

\* scrape_single_post(post_url): [raised, data].  When driver.get raises, post_data
\* is not yet bound and "return post_data" raises UnboundLocalError; a link that holds
\* neither /p/ nor /reel/ raises IndexError in the dict literal and ends the same way.
ScrapeSinglePost(url, page) ==
    IF ~page.load \/ url.kind \notin PostKinds
    THEN [raised |-> TRUE, data |-> <<>>]
    ELSE [raised |-> FALSE, data |-> PostDataOf(url, page)]

(***************************************************************************)
(* The service: POST /scrape_posts, one handler run per request            *)
(***************************************************************************)

\* requests the server may be serving at once
Reqs == {"r1", "r2"}

\* scrape_posts(username, max_posts=20): the model runs it with a smaller limit
max_posts == 2

\* max_scroll_attempts = 10 in the code: the model scrolls fewer times
max_scroll_attempts == 2

\* the longest list of anchors one scan of the page returns: enough to pass the limit
MaxScan == max_posts + 1

\* links /p/<code>/ the profile can show: one more than the limit
NumPosts == max_posts + 1

VARIABLES
    env_creds,          \* IG_USERNAME and IG_PASSWORD are both set
    pc,                 \* where each request's handler stands
    username,           \* the handler's local username
    scraper,            \* the handler's local scraper is not None
    driver,             \* the browser of the request: "none", "open", "quit"
    login_success,      \* "unset", "yes", "no"
    markers,            \* the markers the profile page carried
    post_urls,          \* the set post_urls
    scroll_attempts,
    url_list,           \* post_urls after list(post_urls)[:max_posts]
    idx,                \* the loop index over url_list
    post_data,          \* the list post_data
    outcome,            \* the response: [status, detail]; status 0: none yet
    csv,                \* the CSV body: [header, rows]
    gets,               \* the pages driver.get was called for, in order
    closes,             \* calls of scraper.close()
    seen,               \* what the browser showed for each post link loaded, in order
    returned,           \* scrape_posts returned (it did not raise)
    ps_url, ps_page, ps_result   \* scrape_single_post alone: its input and result

pipeline_vars ==
    <<env_creds, pc, username, scraper, driver, login_success, markers, post_urls,
      scroll_attempts, url_list, idx, post_data, outcome, csv, gets, closes, seen,
      returned>>

post_vars == <<ps_url, ps_page, ps_result>>

vars == <<pipeline_vars, post_vars>>

NoOutcome == [status |-> 0, detail |-> "none"]

NoCsv == [header |-> <<>>, rows |-> <<>>]

\* scrape_single_post was not called yet
NoResult == [called |-> FALSE, raised |-> FALSE, data |-> <<>>]

\* HTTPException(status_code=status, ...)
HTTPException(status, detail) == [status |-> status, detail |-> detail]

\* the DictWriter's fieldnames
fieldnames ==
    <<"post_url", "shortcode", "title", "caption", "hashtags", "likes",
      "comments_count", "comments", "timestamp", "is_video", "scraped_at">>

Range(f) == {f[i] : i \in DOMAIN f}

\* the post links the profile can show: the /p/ links and one /reel/ link
PostLinks == ([kind : {"p"}, code : 1..NumPosts]) \cup {[kind |-> "reel", code |-> 1]}

\* an anchor of the page: a post link, or a link to something else
Links == PostLinks \cup {[kind |-> "other", code |-> 0]}

LoginPage == [kind |-> "login", code |-> 0]

ProfilePage == [kind |-> "profile", code |-> 0]

\* what the selectors of one scan return, in order
Scans == UNION {[1..n -> Links] : n \in 0..MaxScan}

\* payload.username.lower().strip().replace("@", "")
NormalizeUsername(raw) == Remove(Strip(Lower(raw)), "@")

\* the handler's test of the username: if not username
UsernameRejected(u) == u = Empty

\* the loop over the elements of a scan: a new post link is added, and the loops
\* are left once max_posts links are held
RECURSIVE AddUntil(_, _, _)
AddUntil(urls, scan, cap) ==
    IF scan = <<>> \/ Cardinality(urls) >= cap THEN urls
    ELSE IF Head(scan).kind \in PostKinds
         THEN AddUntil(urls \cup {Head(scan)}, Tail(scan), cap)
         ELSE AddUntil(urls, Tail(scan), cap)

\* the fallback loop: every href with /p/ in it is added, with no test of the count
FallbackAdd(urls, scan) == urls \cup {scan[i] : i \in {j \in DOMAIN scan : scan[j].kind = "p"}}

Min(a, b) == IF a < b THEN a ELSE b

\* list(post_urls), the whole set without the slice
ListingsWhole(urls, cap) ==
    {l \in [1..Cardinality(urls) -> urls] : \A i, j \in DOMAIN l : i # j => l[i] # l[j]}

\* list(post_urls)[:max_posts]: a set is listed in an order the program does not choose
Listings(urls, cap) ==
    {l \in [1..Min(Cardinality(urls), cap) -> urls] :
        \A i, j \in DOMAIN l : i # j => l[i] # l[j]}

\* the tests without the third one, "user not found"
ProfileErrorTwoTests(ms) ==
    IF "unavailable" \in ms THEN HTTPException(404, "not_found")
    ELSE IF "private" \in ms THEN HTTPException(403, "private")
    ELSE NoOutcome

\* the error of a profile page, the tests in the code's order
ProfileError(ms) ==
    IF "unavailable" \in ms THEN HTTPException(404, "not_found")
    ELSE IF "private" \in ms THEN HTTPException(403, "private")
    ELSE IF "user_not_found" \in ms THEN HTTPException(404, "not_found")
    ELSE NoOutcome

Markers == SUBSET {"unavailable", "private", "user_not_found"}

\* csv.DictWriter.writerows: a key outside fieldnames raises ValueError, a missing key
\* is written as the empty string
RowRejected(row) == ~(DOMAIN row \subseteq Range(fieldnames))

\* the cell written for a value: None is written as the empty string (of the fields
\* only timestamp can be None)
CsvCell(f, v) == IF f = "timestamp" /\ v = None THEN Empty ELSE v

CsvRow(row) ==
    [f \in Range(fieldnames) |-> IF f \in DOMAIN row THEN CsvCell(f, row[f]) ELSE Empty]

\* the response without the test "if not posts"
ResponseForAnyList(posts) ==
    IF \E i \in DOMAIN posts : RowRejected(posts[i])
    THEN HTTPException(500, "unexpected")
    ELSE HTTPException(200, "csv")

\* the handler after scrape_posts returned posts: the response
ResponseFor(posts) ==
    IF posts = <<>> THEN HTTPException(404, "no_posts")
    ELSE IF \E i \in DOMAIN posts : RowRejected(posts[i])
         THEN HTTPException(500, "unexpected")
    ELSE HTTPException(200, "csv")

CsvFor(posts) ==
    IF ResponseFor(posts).status = 200
    THEN [header |-> fieldnames, rows |-> [i \in DOMAIN posts |-> CsvRow(posts[i])]]
    ELSE NoCsv

(***************************************************************************)
(* Inputs: usernames of the payload and post pages                         *)
(***************************************************************************)

HelloSunBeach ==
    <<"H", "e", "l", "l", "o", " ", "#", "s", "u", "n", " ", "#", "b", "e", "a", "c", "h">>

\* the payload's usernames: empty or blank ones, one the handler rewrites, ones the
\* Instagram pattern rejects (two dots and a character outside it, 31 characters)
Names ==
    {<<>>, <<" ">>, <<"@">>, <<" ", "@", "A", "_", "1", " ">>, <<"a", ".", ".", "!">>,
     Rep("a", 31)}

Steps == {"caption", "likes", "timestamp", "video", "comments"}

NotFound == [found |-> FALSE, text |-> Empty]

Found(text) == [found |-> TRUE, text |-> text]

Raises == [ok |-> FALSE, texts |-> <<>>]

Returns(texts) == [ok |-> TRUE, texts |-> texts]

NoTime == [found |-> FALSE, value |-> Empty]

Time(value) == [found |-> TRUE, value |-> value]

\* a clock reading, as isoformat() gives it
Now == <<"2", "0", "2", "5">>

\* a post page whose driver.get raises
FailedLoad ==
    [load |-> FALSE, now |-> Now, caption |-> <<NotFound, NotFound, NotFound, NotFound>>,
     likes |-> <<Raises, Raises, Raises>>, time_dt |-> NoTime, time_any |-> NoTime,
     video |-> <<"raise", "raise", "raise">>, comments |-> Raises]

\* a post page that loads, on which the extraction steps in failing find nothing or raise
PageWith(caption, failing) ==
    [load |-> TRUE, now |-> Now,
     caption |-> IF "caption" \in failing THEN <<NotFound, NotFound, NotFound, NotFound>>
                 ELSE <<NotFound, Found(<<"H", "i">>), Found(caption), NotFound>>,
     likes |-> IF "likes" \in failing THEN <<Raises, Raises, Raises>>
               ELSE <<Raises, Returns(<<<<"l", "i", "k", "e", "s">>, <<"1", ",", "2">>>>),
                      Raises>>,
     time_dt |-> IF failing = {} THEN Time(Now) ELSE NoTime,
     time_any |-> IF "timestamp" \in failing THEN NoTime ELSE Time(None),
     video |-> IF "video" \in failing THEN <<"empty", "raise", "found">>
               ELSE <<"empty", "found", "empty">>,
     comments |-> IF "comments" \in failing THEN Raises
                  ELSE Returns(<<<<"n", "i", "c", "e">>, <<"s", "o", " ", "n", "i", "c", "e">>>>)]

\* the steps that fail on a page: none, one of them, or all
FailSets == {f \in SUBSET Steps : Cardinality(f) <= 1 \/ f = Steps}

\* the post pages of the service's runs
Pages == {FailedLoad} \cup {PageWith(HelloSunBeach, f) : f \in FailSets}

(***************************************************************************)
(* The handler scrape_posts_endpoint, step by step                         *)
(***************************************************************************)

Init ==
    /\ env_creds \in BOOLEAN
    /\ pc = [r \in Reqs |-> "idle"]
    /\ username = [r \in Reqs |-> Empty]
    /\ scraper = [r \in Reqs |-> FALSE]
    /\ driver = [r \in Reqs |-> "none"]
    /\ login_success = [r \in Reqs |-> "unset"]
    /\ markers = [r \in Reqs |-> {}]
    /\ post_urls = [r \in Reqs |-> {}]
    /\ scroll_attempts = [r \in Reqs |-> 0]
    /\ url_list = [r \in Reqs |-> <<>>]
    /\ idx = [r \in Reqs |-> 0]
    /\ post_data = [r \in Reqs |-> <<>>]
    /\ outcome = [r \in Reqs |-> NoOutcome]
    /\ csv = [r \in Reqs |-> NoCsv]
    /\ gets = [r \in Reqs |-> <<>>]
    /\ closes = [r \in Reqs |-> 0]
    /\ seen = [r \in Reqs |-> <<>>]
    /\ returned = [r \in Reqs |-> FALSE]
    /\ ps_url = [kind |-> "other", code |-> 0]
    /\ ps_page = FailedLoad
    /\ ps_result = NoResult

\* a close() of one browser that all the requests hold: every open one is quit
CloseShared(r, d) ==
    /\ closes' = [closes EXCEPT ![r] = @ + 1]
    /\ driver' = [q \in Reqs |-> IF q = r \/ driver[q] = "open" THEN d ELSE driver[q]]

\* scraper.close(): driver.quit(), whose exception is swallowed; d is the browser
\* afterwards ("quit", or still "open" when quit raised)
Close(r, d) ==
    /\ closes' = [closes EXCEPT ![r] = @ + 1]
    /\ driver' = [driver EXCEPT ![r] = d]

\* the request ends inside the try block with the response or error e: scrape_posts
\* is left (its locals post_urls and scroll_attempts are gone), the finally clause
\* closes the scraper, and e goes to the caller
EndRequest(r, e) ==
    /\ outcome' = [outcome EXCEPT ![r] = e]
    /\ pc' = [pc EXCEPT ![r] = "done"]
    /\ post_urls' = [post_urls EXCEPT ![r] = {}]
    /\ scroll_attempts' = [scroll_attempts EXCEPT ![r] = 0]
    /\ \E d \in {"quit", driver[r]} : Close(r, d)

\* the request arrives: the username is normalised and an empty one is refused,
\* before the try block
Submit(r, names) ==
    /\ pc[r] = "idle"
    /\ \E raw \in names :
        LET u == NormalizeUsername(raw)
        IN  /\ username' = [username EXCEPT ![r] = u]
            /\ IF UsernameRejected(u)
               THEN /\ outcome' = [outcome EXCEPT ![r] = HTTPException(400, "required")]
                    /\ pc' = [pc EXCEPT ![r] = "done"]
               ELSE /\ outcome' = outcome
                    /\ pc' = [pc EXCEPT ![r] = "create"]
    /\ UNCHANGED <<env_creds, scraper, driver, login_success, markers, post_urls,
                   scroll_attempts, url_list, idx, post_data, csv, gets, closes, seen,
                   returned>>
    /\ UNCHANGED post_vars

\* scraper = InstagramScraper(): create_driver starts a browser and runs the stealth
\* scripts.  No browser starts, or a script raises after it started (the browser is
\* then held by nobody), or the scraper is built.  When it raises, scraper is still
\* None and the finally clause closes nothing.
CreateDriver(r) ==
    /\ pc[r] = "create"
    /\ \/ /\ outcome' = [outcome EXCEPT ![r] = HTTPException(500, "browser")]
          /\ pc' = [pc EXCEPT ![r] = "done"]
          /\ UNCHANGED <<driver, scraper>>
       \/ /\ outcome' = [outcome EXCEPT ![r] = HTTPException(500, "browser")]
          /\ pc' = [pc EXCEPT ![r] = "done"]
          /\ driver' = [driver EXCEPT ![r] = "open"]
          /\ UNCHANGED scraper
       \/ /\ driver' = [driver EXCEPT ![r] = "open"]
          /\ scraper' = [scraper EXCEPT ![r] = TRUE]
          /\ pc' = [pc EXCEPT ![r] = IF env_creds THEN "login" ELSE "profile"]
          /\ UNCHANGED outcome
    /\ UNCHANGED <<env_creds, username, login_success, markers, post_urls,
                   scroll_attempts, url_list, idx, post_data, csv, gets, closes, seen,
                   returned>>
    /\ UNCHANGED post_vars

\* a login whose failure ends the request
LoginOrFail(r) ==
    /\ pc[r] = "login"
    /\ gets' = [gets EXCEPT ![r] = Append(@, LoginPage)]
    /\ \/ /\ login_success' = [login_success EXCEPT ![r] = "yes"]
          /\ pc' = [pc EXCEPT ![r] = "profile"]
          /\ UNCHANGED <<outcome, post_urls, scroll_attempts, driver, closes>>
       \/ /\ login_success' = [login_success EXCEPT ![r] = "no"]
          /\ EndRequest(r, HTTPException(500, "login"))
    /\ UNCHANGED <<env_creds, username, scraper, markers, url_list, idx, post_data, csv,
                   seen, returned>>
    /\ UNCHANGED post_vars

\* scraper.login(...): the login page is loaded; whatever happens, login returns
\* True or False and the handler goes on
Login(r) ==
    /\ pc[r] = "login"
    /\ gets' = [gets EXCEPT ![r] = Append(@, LoginPage)]
    /\ \E ok \in {"yes", "no"} : login_success' = [login_success EXCEPT ![r] = ok]
    /\ pc' = [pc EXCEPT ![r] = "profile"]
    /\ UNCHANGED <<env_creds, username, scraper, driver, markers, post_urls,
                   scroll_attempts, url_list, idx, post_data, outcome, csv, closes, seen,
                   returned>>
    /\ UNCHANGED post_vars

\* scrape_posts up to the collection loop: the profile page is loaded (the call may
\* raise) and its source is searched for the markers
LoadProfile(r) ==
    /\ pc[r] = "profile"
    /\ gets' = [gets EXCEPT ![r] = Append(@, ProfilePage)]
    /\ \/ /\ EndRequest(r, HTTPException(500, "scrape_error"))
          /\ UNCHANGED markers
       \/ \E ms \in Markers :
            /\ markers' = [markers EXCEPT ![r] = ms]
            /\ IF ProfileError(ms) # NoOutcome
               THEN EndRequest(r, ProfileError(ms))
               ELSE /\ post_urls' = [post_urls EXCEPT ![r] = {}]
                    /\ scroll_attempts' = [scroll_attempts EXCEPT ![r] = 0]
                    /\ pc' = [pc EXCEPT ![r] = "collect"]
                    /\ UNCHANGED <<outcome, driver, closes>>
    /\ UNCHANGED <<env_creds, username, scraper, login_success, url_list, idx,
                   post_data, csv, seen, returned>>
    /\ UNCHANGED post_vars

\* the while condition of the collection loop
CollectMore(r) ==
    Cardinality(post_urls[r]) < max_posts /\ scroll_attempts[r] < max_scroll_attempts

\* one pass of the collection loop: the selectors are scanned (a selector that raises
\* contributes nothing), the loop is left when max_posts links are held, otherwise the
\* page is scrolled (the script may raise) and the attempt counted
CollectIter(r, scans) ==
    /\ pc[r] = "collect"
    /\ CollectMore(r)
    /\ \E scan \in scans :
        LET urls == AddUntil(post_urls[r], scan, max_posts)
        IN  IF Cardinality(urls) >= max_posts
            THEN /\ post_urls' = [post_urls EXCEPT ![r] = urls]
                 /\ pc' = [pc EXCEPT ![r] = "collected"]
                 /\ UNCHANGED <<scroll_attempts, outcome, driver, closes>>
            ELSE \/ EndRequest(r, HTTPException(500, "scrape_error"))
                 \/ /\ post_urls' = [post_urls EXCEPT ![r] = urls]
                    /\ scroll_attempts' = [scroll_attempts EXCEPT ![r] = @ + 1]
                    /\ UNCHANGED <<pc, outcome, driver, closes>>
    /\ UNCHANGED <<env_creds, username, scraper, login_success, markers, url_list, idx,
                   post_data, csv, gets, seen, returned>>
    /\ UNCHANGED post_vars

\* the while condition is false: the loop ends
CollectExit(r) ==
    /\ pc[r] = "collect"
    /\ ~CollectMore(r)
    /\ pc' = [pc EXCEPT ![r] = "collected"]
    /\ UNCHANGED <<env_creds, username, scraper, driver, login_success, markers,
                   post_urls, scroll_attempts, url_list, idx, post_data, outcome, csv,
                   gets, closes, seen, returned>>
    /\ UNCHANGED post_vars

\* if not post_urls: every anchor of the page is scanned (up to where a call raises);
\* with still no link scrape_posts returns [] and the handler answers 404
Fallback(r, scans) ==
    /\ pc[r] = "collected"
    /\ post_urls[r] = {}
    /\ \E scan \in scans :
        LET urls == FallbackAdd(post_urls[r], scan)
        IN  IF urls = {}
            THEN /\ EndRequest(r, ResponseFor(<<>>))
                 /\ returned' = [returned EXCEPT ![r] = TRUE]
            ELSE /\ post_urls' = [post_urls EXCEPT ![r] = urls]
                 /\ UNCHANGED <<pc, outcome, returned, scroll_attempts, driver, closes>>
    /\ UNCHANGED <<env_creds, username, scraper, login_success, markers, url_list, idx,
                   post_data, csv, gets, seen>>
    /\ UNCHANGED post_vars

\* post_urls = list(post_urls)[:max_posts]; post_data = [].  The name post_urls now
\* holds the list (url_list here) and the set is gone.
MakeList(r) ==
    /\ pc[r] = "collected"
    /\ post_urls[r] # {}
    /\ \E l \in Listings(post_urls[r], max_posts) :
        url_list' = [url_list EXCEPT ![r] = l]
    /\ post_urls' = [post_urls EXCEPT ![r] = {}]
    /\ idx' = [idx EXCEPT ![r] = 1]
    /\ post_data' = [post_data EXCEPT ![r] = <<>>]
    /\ pc' = [pc EXCEPT ![r] = "posts"]
    /\ UNCHANGED <<env_creds, username, scraper, driver, login_success, markers,
                   scroll_attempts, outcome, csv, gets, closes, seen, returned>>
    /\ UNCHANGED post_vars

\* the for loop's body for one link
ScrapedOnto(data, url, page) ==
    LET res == ScrapeSinglePost(url, page)
    IN  IF res.raised THEN data ELSE Append(data, res.data)

\* one pass of the for loop over the links: the post page is loaded and scraped; a
\* raise of scrape_single_post is caught and the loop goes on
ScrapePost(r, pages) ==
    /\ pc[r] = "posts"
    /\ idx[r] <= Len(url_list[r])
    /\ \E page \in pages :
        /\ post_data' = [post_data EXCEPT ![r] = ScrapedOnto(@, url_list[r][idx[r]], page)]
        /\ seen' = [seen EXCEPT ![r] = Append(@, page)]
    /\ gets' = [gets EXCEPT ![r] = Append(@, url_list[r][idx[r]])]
    /\ idx' = [idx EXCEPT ![r] = @ + 1]
    /\ UNCHANGED <<env_creds, pc, username, scraper, driver, login_success, markers,
                   post_urls, scroll_attempts, url_list, outcome, csv, closes, returned>>
    /\ UNCHANGED post_vars

\* the for loop is over: scrape_posts returns post_data, and the handler answers 404
\* for an empty list and the CSV otherwise
Respond(r) ==
    /\ pc[r] = "posts"
    /\ idx[r] > Len(url_list[r])
    /\ returned' = [returned EXCEPT ![r] = TRUE]
    /\ EndRequest(r, ResponseFor(post_data[r]))
    /\ csv' = [csv EXCEPT ![r] = CsvFor(post_data[r])]
    /\ UNCHANGED <<env_creds, username, scraper, login_success, markers, url_list, idx,
                   post_data, gets, seen>>
    /\ UNCHANGED post_vars

\* every step of request r, for these usernames, scans and post pages
Handle(r, names, scans, pages) ==
    \/ Submit(r, names)
    \/ CreateDriver(r)
    \/ Login(r)
    \/ LoadProfile(r)
    \/ CollectIter(r, scans)
    \/ CollectExit(r)
    \/ Fallback(r, scans)
    \/ MakeList(r)
    \/ ScrapePost(r, pages)
    \/ Respond(r)

\* one request served alone
Next == Handle("r1", Names, Scans, Pages)

Spec == Init /\ [][Next]_vars

(***************************************************************************)
(* scrape_single_post alone, over a wider set of post pages                *)
(***************************************************************************)

\* the longest text put before the filling of a caption
MaxHead == 2

\* the longest text put after the filling of a caption
MaxTail == 1

\* the characters around the filling: the tag sign, a word character, a blank
CaptionChars == {"#", "a", " "}

Heads == UNION {[1..n -> CaptionChars] : n \in 0..MaxHead}

Tails == UNION {[1..n -> CaptionChars] : n \in 0..MaxTail}

\* lengths of the filling that bring the text to either side of both thresholds
FillLens ==
    {0, CaptionMinLen - 2, CaptionMinLen, TitleLen - 3, TitleLen - 1}

\* the texts a caption element may hold
CaptionTexts ==
    {h \o Rep("x", n) \o t : h \in Heads, n \in FillLens, t \in Tails} \cup {HelloSunBeach}

\* what the other caption selectors find
Fillers == {NotFound, Found(HelloSunBeach)}

\* the four caption selectors' elements: one holds any of the texts
CaptionFinds ==
    {[i \in 1..4 |-> IF i = k THEN Found(text) ELSE f[i]] :
        k \in 1..4, text \in CaptionTexts, f \in [1..4 -> Fillers]}

\* a post page with these caption elements, the other steps failing or not
PageOf(finds, failing) == [PageWith(Empty, failing) EXCEPT !.caption = finds]

PostPages ==
    {FailedLoad} \cup {PageOf(c, f) : c \in CaptionFinds, f \in {{}, Steps \ {"caption"}}}

PostInit ==
    /\ ps_url \in {[kind |-> k, code |-> 1] : k \in PostKinds}
    /\ ps_page \in PostPages
    /\ ps_result = NoResult
    /\ env_creds = FALSE
    /\ pc = [r \in Reqs |-> "idle"]
    /\ username = [r \in Reqs |-> Empty]
    /\ scraper = [r \in Reqs |-> FALSE]
    /\ driver = [r \in Reqs |-> "none"]
    /\ login_success = [r \in Reqs |-> "unset"]
    /\ markers = [r \in Reqs |-> {}]
    /\ post_urls = [r \in Reqs |-> {}]
    /\ scroll_attempts = [r \in Reqs |-> 0]
    /\ url_list = [r \in Reqs |-> <<>>]
    /\ idx = [r \in Reqs |-> 0]
    /\ post_data = [r \in Reqs |-> <<>>]
    /\ outcome = [r \in Reqs |-> NoOutcome]
    /\ csv = [r \in Reqs |-> NoCsv]
    /\ gets = [r \in Reqs |-> <<>>]
    /\ closes = [r \in Reqs |-> 0]
    /\ seen = [r \in Reqs |-> <<>>]
    /\ returned = [r \in Reqs |-> FALSE]

\* the call scrape_single_post(ps_url) on the page ps_page
CallScrapeSinglePost ==
    /\ ~ps_result.called
    /\ ps_result' = [called |-> TRUE,
                     raised |-> ScrapeSinglePost(ps_url, ps_page).raised,
                     data |-> ScrapeSinglePost(ps_url, ps_page).data]
    /\ UNCHANGED <<ps_url, ps_page>>
    /\ UNCHANGED pipeline_vars

PostNext == CallScrapeSinglePost

PostSpec == PostInit /\ [][PostNext]_vars

(***************************************************************************)
(* Properties of scrape_single_post (checked under PostSpec)               *)
(***************************************************************************)

\* scrape_single_post returned a record
Scraped == ps_result.called /\ ~ps_result.raised

\* text from its first to its last character that is not whitespace
Stripped(text) ==
    LET solid == {i \in 1..Len(text) : text[i] \notin Whitespace}
    IN  IF solid = {} THEN <<>>
        ELSE SubSeq(text, CHOOSE i \in solid : \A j \in solid : i <= j,
                          CHOOSE i \in solid : \A j \in solid : i >= j)

\* the caption elements whose text, stripped, has more than 10 characters
LongCaptions(finds) ==
    {i \in 1..Len(finds) : finds[i].found /\ Len(Stripped(finds[i].text)) > 10}

\* the positions where a token of the caption starts: a '#' before a word character
TokenStarts(s) == {i \in 1..Len(s) : s[i] = "#" /\ i < Len(s) /\ s[i + 1] \in WordChars}

\* the token that starts at i: the '#' and the longest run of word characters after it
TokenAt(s, i) ==
    LET e == CHOOSE k \in (i + 1)..Len(s) :
                /\ \A m \in (i + 1)..k : s[m] \in WordChars
                /\ k = Len(s) \/ s[k + 1] \notin WordChars
    IN  SubSeq(s, i, e)

\* the elements of a set of numbers in increasing order
RECURSIVE Sorted(_)
Sorted(S) ==
    IF S = {} THEN <<>>
    ELSE LET m == CHOOSE x \in S : \A y \in S : x <= y
         IN  <<m>> \o Sorted(S \ {m})

\* the tokens of a caption in order of appearance
Tokens(s) == [k \in 1..Cardinality(TokenStarts(s)) |-> TokenAt(s, Sorted(TokenStarts(s))[k])]

\* the tag names: the tokens without their '#'
TagNames(s) == [k \in 1..Len(Tokens(s)) |-> Tail(Tokens(s)[k])]

CommaSpace == <<",", " ">>

SunBeachTags == <<"#", "s", "u", "n", ",", " ", "#", "b", "e", "a", "c", "h">>

\* C5 as stated: the hashtags of a record are the tag names of its caption, sun and
\* beach for 'Hello #sun #beach' (here written out with ', ' between them)
C5_HashtagsAreTagNames ==
    Scraped => ps_result.data.hashtags = Join(CommaSpace, TagNames(ps_result.data.caption))

\* C5 amended: the hashtags field of a record is the text made of the tokens ('#'
\* and its word characters, the '#' kept) found in the record's caption, in order of
\* appearance, joined by ', '; it is '#sun, #beach' for the caption
\* 'Hello #sun #beach' and empty for a caption without a token
C5_HashtagsAreJoinedTokens ==
    Scraped =>
        /\ ps_result.data.hashtags = Join(CommaSpace, Tokens(ps_result.data.caption))
        /\ ps_result.data.caption = HelloSunBeach => ps_result.data.hashtags = SunBeachTags
        /\ TokenStarts(ps_result.data.caption) = {} => ps_result.data.hashtags = Empty

C5_Witness ==
    /\ Scraped
    /\ ps_result.data.caption = HelloSunBeach
    /\ ps_result.data.hashtags = SunBeachTags

\* C6: the title of a record is its caption when that has at most 50 characters and
\* the caption's first 50 characters followed by '...' when it has more; it never
\* has more than 53 characters and is empty exactly when the caption is
C6_TitleFromCaption ==
    Scraped =>
        LET c == ps_result.data.caption
            t == ps_result.data.title
        IN  /\ Len(c) > 50 => /\ Len(t) = 53
                              /\ \A i \in 1..50 : t[i] = c[i]
                              /\ \A i \in 51..53 : t[i] = "."
            /\ Len(c) <= 50 => t = c
            /\ Len(t) <= 53
            /\ t = Empty <=> c = Empty

C6_Witness ==
    /\ Scraped
    /\ Len(ps_result.data.caption) = 51
    /\ Len(ps_result.data.title) = 53

\* the texts of the caption elements the page holds
CaptionTextsOf(page) ==
    {page.caption[i].text : i \in {j \in 1..Len(page.caption) : page.caption[j].found}}

\* C7 as stated: the caption of a record is the text of a caption element of the
\* post as it stands, whatever its length, and is empty only when no element holds text
C7_CaptionVerbatim ==
    Scraped =>
        /\ ps_result.data.caption # Empty => ps_result.data.caption \in CaptionTextsOf(ps_page)
        /\ ps_result.data.caption = Empty => CaptionTextsOf(ps_page) \subseteq {Empty}

\* C7 amended: the caption of a record is the text, without its leading and trailing
\* whitespace, of the first caption element (in selector order) whose text so stripped
\* has more than 10 characters, and is the empty string when there is no such element
C7_CaptionStrippedAndLong ==
    Scraped =>
        LET long == LongCaptions(ps_page.caption)
        IN  IF long = {} THEN ps_result.data.caption = Empty
            ELSE \E k \in long :
                    /\ \A j \in long : k <= j
                    /\ ps_result.data.caption = Stripped(ps_page.caption[k].text)

\* a caption text of 1 to 10 characters is dropped
C7_Witness ==
    /\ Scraped
    /\ ps_result.data.caption = Empty
    /\ \E t \in CaptionTextsOf(ps_page) : Len(Stripped(t)) \in 1..10

(***************************************************************************)
(* Properties of the handler (checked under Spec and FairSpec)             *)
(***************************************************************************)

\* the post pages that matter for the order of the steps: one that does not load, one
\* on which every step fails, one on which none does
PlainPages == {FailedLoad, PageWith(HelloSunBeach, Steps), PageWith(HelloSunBeach, {})}

\* one request served alone, over the plain post pages
FairNext == Handle("r1", Names, Scans, PlainPages)

\* every request that arrives is served to its end: the handler is one sequential
\* run, and each browser call returns or raises
FairSpec == Init /\ [][FairNext]_vars /\ WF_vars(FairNext)

Letters == UpperCase \cup LowerCase

\* the pattern of an Instagram username: 1 to 30 characters, letters, digits, '.'
\* and '_' only, no two '.' in a row
ValidUsername(u) ==
    /\ Len(u) \in 1..30
    /\ \A i \in 1..Len(u) : u[i] \in Letters \cup Digits \cup {".", "_"}
    /\ \A i \in 1..(Len(u) - 1) : ~(u[i] = "." /\ u[i + 1] = ".")

\* C1: a request whose username fails the pattern is refused with a 4xx error, and
\* no browser is started and no page loaded for it
C1_InvalidUsernameRefused ==
    \A r \in Reqs :
        (pc[r] # "idle" /\ ~ValidUsername(username[r])) =>
            /\ driver[r] = "none"
            /\ gets[r] = <<>>
            /\ pc[r] = "done" => outcome[r].status \in 400..499

FixedKeys ==
    {"post_url", "shortcode", "title", "caption", "hashtags", "likes", "comments_count",
     "comments", "timestamp", "is_video", "scraped_at"}

IsLoaded(page) == page.load

\* the post pages that loaded, in the order of their visits
LoadedPages(r) == SelectSeq(seen[r], IsLoaded)

\* a step of the extraction found nothing on the page
StepFailed(step, page) ==
    CASE step = "caption" -> \A i \in DOMAIN page.caption : ~page.caption[i].found
      [] step = "likes" -> \A i \in DOMAIN page.likes : ~page.likes[i].ok
      [] step = "timestamp" -> ~page.time_dt.found /\ ~page.time_any.found
      [] step = "video" -> \E i \in DOMAIN page.video :
                              /\ page.video[i] = "raise"
                              /\ \A j \in 1..(i - 1) : page.video[j] = "empty"
      [] OTHER -> ~page.comments.ok

\* the fields a failed step leaves alone hold the values of the dict literal
DefaultsKept(row, page) ==
    /\ StepFailed("caption", page) =>
          row.caption = <<>> /\ row.title = <<>> /\ row.hashtags = <<>>
    /\ StepFailed("likes", page) => row.likes = <<"0">>
    /\ StepFailed("timestamp", page) => row.timestamp = <<>>
    /\ StepFailed("video", page) /\ row.post_url.kind = "p" =>
          row.is_video = <<"F", "a", "l", "s", "e">>
    /\ StepFailed("comments", page) => row.comments = <<>> /\ row.comments_count = <<"0">>

\* C2: every record of post_data and every row of the CSV has exactly the eleven
\* keys, which are the CSV's header; a list of records is always written (never
\* refused for its keys); the fields of the steps that failed hold their defaults
C2_RowsHaveFixedKeys ==
    \A r \in Reqs :
        /\ \A k \in DOMAIN post_data[r] :
              /\ DOMAIN post_data[r][k] = FixedKeys
              /\ k <= Len(LoadedPages(r)) => DefaultsKept(post_data[r][k], LoadedPages(r)[k])
        /\ returned[r] /\ post_data[r] # <<>> =>
              /\ outcome[r].status = 200
              /\ Range(csv[r].header) = FixedKeys
              /\ Len(csv[r].header) = 11
              /\ Len(csv[r].rows) = Len(post_data[r])
              /\ \A k \in DOMAIN csv[r].rows : DOMAIN csv[r].rows[k] = FixedKeys

C2_Witness ==
    /\ pc["r1"] = "done"
    /\ outcome["r1"].status = 200
    /\ Len(csv["r1"].rows) = 2
    /\ \A s \in Steps : StepFailed(s, LoadedPages("r1")[1])
    /\ \E s \in Steps : ~StepFailed(s, LoadedPages("r1")[2])

\* C3: once the profile page carried a marker the request ends with 404 or 403 (403
\* for a private account, 404 when no private marker is there), no link is collected,
\* no post page loaded, no record or CSV made, and the error is what the caller gets
C3_UnavailableProfileReported ==
    \A r \in Reqs :
        markers[r] # {} =>
            /\ pc[r] = "done"
            /\ outcome[r].status \in {403, 404}
            /\ markers[r] = {"private"} => outcome[r].status = 403
            /\ "private" \notin markers[r] => outcome[r].status = 404
            /\ post_urls[r] = {} /\ url_list[r] = <<>> /\ post_data[r] = <<>>
            /\ \A i \in DOMAIN gets[r] : gets[r][i].kind \notin {"p", "reel"}
            /\ csv[r] = NoCsv /\ ~returned[r]

C3_Witness ==
    /\ pc["r1"] = "done"
    /\ markers["r1"] = {"user_not_found"}
    /\ outcome["r1"].status = 404

\* C4: when scrape_posts returns no record the response is 404 'No posts found' and
\* no CSV; a CSV is answered only with at least one record, one row per record
C4_EmptyResultIs404 ==
    \A r \in Reqs :
        /\ returned[r] /\ post_data[r] = <<>> =>
              outcome[r] = [status |-> 404, detail |-> "no_posts"] /\ csv[r] = NoCsv
        /\ outcome[r].status = 200 =>
              /\ returned[r]
              /\ Len(csv[r].rows) >= 1
              /\ Len(csv[r].rows) = Len(post_data[r])
        /\ csv[r] # NoCsv => outcome[r].status = 200

\* links were collected, none of them gave a record
C4_Witness ==
    /\ pc["r1"] = "done"
    /\ returned["r1"]
    /\ url_list["r1"] # <<>>
    /\ post_data["r1"] = <<>>
    /\ outcome["r1"].status = 404

\* C8: a 403 or 404 is answered only for a profile with a marker or one on which no
\* post link was found; a run that collected links answers no 4xx
C8_FailuresAreNot4xx ==
    \A r \in Reqs :
        outcome[r].status \in {403, 404} => markers[r] # {} \/ url_list[r] = <<>>

IsPostLink(g) == g.kind \in {"p", "reel"}

\* the post pages driver.get was called for, in order
PostGets(r) == SelectSeq(gets[r], IsPostLink)

\* the visits of post pages that loaded
LoadedVisits(r) == {i \in DOMAIN seen[r] : seen[r][i].load}

\* C10: the links of url_list are loaded one after the other, each once; a post that
\* raises is passed over and the loop goes on to the last link; post_data holds one
\* record for each link whose page loaded, in the order of the list
C10_EachLinkOnceInOrder ==
    \A r \in Reqs :
        /\ \A i, j \in DOMAIN url_list[r] : i # j => url_list[r][i] # url_list[r][j]
        /\ Len(PostGets(r)) <= Len(url_list[r])
        /\ PostGets(r) = SubSeq(url_list[r], 1, Len(PostGets(r)))
        /\ Len(seen[r]) = Len(PostGets(r))
        /\ returned[r] => PostGets(r) = url_list[r]
        /\ Len(post_data[r]) = Cardinality(LoadedVisits(r))
        /\ \A k \in DOMAIN post_data[r] :
              post_data[r][k].post_url = url_list[r][Sorted(LoadedVisits(r))[k]]

\* the first post raised, the second one, without a caption, gave the only record
C10_Witness ==
    /\ pc["r1"] = "done"
    /\ Len(url_list["r1"]) = 2
    /\ ~seen["r1"][1].load
    /\ seen["r1"][2].load
    /\ StepFailed("caption", seen["r1"][2])
    /\ Len(post_data["r1"]) = 1
    /\ post_data["r1"][1].post_url = url_list["r1"][2]

\* the place of a step in the pipeline
Rank(p) ==
    CASE p = "idle" -> 0 [] p = "create" -> 1 [] p = "login" -> 2 [] p = "profile" -> 3
      [] p = "collect" -> 4 [] p = "collected" -> 5 [] p = "posts" -> 6
      [] OTHER -> 7

\* one step of a request keeps the pipeline's order, changes nothing of the scrape
\* once the outcome is decided, and leaves the login for the profile with no outcome
C9_Step(r) ==
    /\ Rank(pc'[r]) >= Rank(pc[r])
    /\ outcome[r] # NoOutcome =>
          /\ outcome'[r] = outcome[r]
          /\ pc'[r] = "done"
          /\ <<gets'[r], post_urls'[r], url_list'[r], post_data'[r], csv'[r]>>
                = <<gets[r], post_urls[r], url_list[r], post_data[r], csv[r]>>
    /\ pc[r] = "login" /\ pc'[r] # "login" =>
          pc'[r] = "profile" /\ outcome'[r] = NoOutcome

\* C9: a request goes through the pipeline in order and ends: it reaches "done" with
\* one outcome, a CSV (status 200) or one error, decided once and for all; no step of
\* the scrape runs once it is decided; a failed login does not decide it
C9_OneTerminalOutcome ==
    /\ [][\A r \in Reqs : C9_Step(r)]_vars
    /\ [](\A r \in Reqs : pc[r] = "done" =>
              /\ outcome[r] # NoOutcome
              /\ outcome[r].status = 200 <=> csv[r] # NoCsv)
    /\ \A r \in Reqs : (pc[r] # "idle") ~> (pc[r] = "done")
    /\ <>(pc["r1"] = "done")

\* the login failed and the request ended with a CSV
C9_Witness ==
    /\ pc["r1"] = "done"
    /\ login_success["r1"] = "no"
    /\ outcome["r1"].status = 200

\* one step of the collection: a pass that stays in the loop counts a scroll attempt;
\* the loop is left with exactly max_posts links, or with fewer once the attempts are
\* used up; the list made of the set is cut to max_posts links
C11_Step(r) ==
    /\ pc[r] = "collect" /\ pc'[r] = "collect" =>
          /\ scroll_attempts'[r] = scroll_attempts[r] + 1
          /\ post_urls[r] \subseteq post_urls'[r]
    /\ pc[r] = "collect" /\ pc'[r] = "collected" =>
          \/ Cardinality(post_urls'[r]) = max_posts
          \/ /\ scroll_attempts[r] = max_scroll_attempts
             /\ post_urls'[r] = post_urls[r]
    /\ pc[r] = "collected" /\ pc'[r] = "posts" =>
          /\ Len(url_list'[r]) = Min(Cardinality(post_urls[r]), max_posts)
          /\ Range(url_list'[r]) \subseteq post_urls[r]

\* C11: the collection loop ends whatever the scans return: it is left as soon as
\* max_posts links are held, and after max_scroll_attempts scrolls at the latest; the
\* links listed, the records returned and the rows of the CSV are never more than
\* max_posts, also when the fallback scan put more links into the set
C11_CollectionBounded ==
    /\ [][\A r \in Reqs : C11_Step(r)]_vars
    /\ [](\A r \in Reqs :
            /\ scroll_attempts[r] <= max_scroll_attempts
            /\ pc[r] = "collect" => Cardinality(post_urls[r]) < max_posts
            /\ Len(url_list[r]) <= max_posts
            /\ Len(post_data[r]) <= max_posts
            /\ Len(csv[r].rows) <= max_posts)
    /\ \A r \in Reqs : (pc[r] = "collect") ~> (pc[r] # "collect")

\* the attempts were used up with no link found, and the fallback scan put more than
\* max_posts links into the set
C11_Witness ==
    /\ pc["r1"] = "collected"
    /\ scroll_attempts["r1"] = max_scroll_attempts
    /\ Cardinality(post_urls["r1"]) > max_posts

(***************************************************************************)
(* Two requests served at once (checked under ConcSpec)                    *)
(***************************************************************************)

\* the usernames of the two requests: they differ
ConcNames(r) ==
    IF r = "r1" THEN {<<"@">>, <<" ", "@", "A", "_", "1", " ">>} ELSE {<<"a", ".", ".", "!">>}

\* the anchors of the two profiles: the first shows /p/ links, the second a reel
ProfileLinks(r) ==
    IF r = "r1" THEN [i \in 1..NumPosts |-> [kind |-> "p", code |-> i]]
    ELSE <<[kind |-> "other", code |-> 0], [kind |-> "reel", code |-> 1]>>

\* what a scan of the profile returns: its anchors up to some point
ConcScans(r) == {SubSeq(ProfileLinks(r), 1, n) : n \in 0..Len(ProfileLinks(r))}

\* the post pages: one that does not load and one on which no step fails
ConcPages == {FailedLoad, PageWith(HelloSunBeach, {})}

\* the handler runs in a worker thread for each request (def, not async def): the
\* steps of the two requests interleave in any order
ConcNext == \E r \in Reqs : Handle(r, ConcNames(r), ConcScans(r), ConcPages)

ConcSpec == Init /\ [][ConcNext]_vars

\* all that belongs to request r: the handler's locals, its scraper and browser, the
\* locals of scrape_posts, the response
Own(r) ==
    <<pc[r], username[r], scraper[r], driver[r], login_success[r], markers[r],
      post_urls[r], scroll_attempts[r], url_list[r], idx[r], post_data[r], outcome[r],
      csv[r], gets[r], closes[r], seen[r], returned[r]>>

\* the records a run alone makes of the first n links, from the pages it was shown
RECURSIVE AloneData(_, _)
AloneData(r, n) ==
    IF n = 0 THEN <<>>
    ELSE ScrapedOnto(AloneData(r, n - 1), url_list[r][n], seen[r][n])

\* the response a run alone gives, from what the request itself submitted and was shown
AloneOutcome(r) ==
    IF UsernameRejected(username[r]) THEN HTTPException(400, "required")
    ELSE IF ProfileError(markers[r]) # NoOutcome THEN ProfileError(markers[r])
    ELSE IF returned[r] THEN ResponseFor(AloneData(r, Len(url_list[r])))
    ELSE IF ~scraper[r] THEN HTTPException(500, "browser")
    ELSE HTTPException(500, "scrape_error")

\* C12: a step of one request changes nothing that belongs to the other (its scraper,
\* browser, set of links, records, CSV, response) nor the credentials both read, so
\* closing one browser leaves the other as it is; the records, the response and the
\* CSV of a request are those its own username and the pages shown to its own
\* browser give when it runs alone
C12_RequestsIndependent ==
    /\ [][/\ env_creds' = env_creds
          /\ \A r \in Reqs : Own(r)' # Own(r) => \A q \in Reqs \ {r} : Own(q)' = Own(q)]_vars
    /\ [](\A r \in Reqs :
            /\ Len(seen[r]) <= Len(url_list[r])
            /\ post_data[r] = AloneData(r, Len(seen[r]))
            /\ driver[r] = "quit" => pc[r] = "done"
            /\ pc[r] = "done" =>
                  /\ outcome[r] = AloneOutcome(r)
                  /\ returned[r] => csv[r] = CsvFor(AloneData(r, Len(url_list[r])))
                  /\ ~returned[r] => csv[r] = NoCsv)

\* the first request ended with its CSV and its browser quit while the second, for
\* another username, is scraping its posts in its own open browser
C12_Witness ==
    /\ pc["r1"] = "done" /\ outcome["r1"].status = 200 /\ driver["r1"] = "quit"
    /\ Len(csv["r1"].rows) = max_posts
    /\ pc["r2"] = "posts" /\ driver["r2"] = "open" /\ idx["r2"] = 2
    /\ username["r1"] # username["r2"]

(***************************************************************************)
(* The browser's end (checked under Spec)                                  *)
(***************************************************************************)

\* C13: a request that ended and had started a browser has called close(), and with
\* it driver.quit(), exactly once, whatever the response (CSV, 4xx, 5xx) and also
\* when create_driver failed after the browser started; close() is never called twice
C13_StartedDriverQuit ==
    \A r \in Reqs :
        /\ closes[r] <= 1
        /\ pc[r] = "done" /\ driver[r] # "none" => closes[r] = 1

====
